---- MODULE Spec2Model ----
(***************************************************************************)
(* DICOM segmentation decoder of dwv: dwv.image.MaskFactory.create and the *)
(* readers it calls (position utilities, validator, dimension reader,      *)
(* segment reader, spacing reader, frame-info reader).                     *)
(*                                                                         *)
(* A JavaScript object is a record whose optional properties are optional  *)
(* fields (typeof o.k === 'undefined' is "k" \notin DOMAIN o).  A DICOM    *)
(* element {value: [...]} is written as its value.  A numeric element      *)
(* value is a tagged scalar, since the parser hands decimal strings and    *)
(* the code parses some of them and not others.                            *)
(***************************************************************************)
EXTENDS Integers, Sequences, FiniteSets, TLC

\* ------------------------------------------------------------- bounds
\* most load() calls on one loader, most entries of one archive, most
\* abort() calls on one loader
MaxLoads == 2
MaxEntries == 2
MaxAborts == 1
\* largest coordinate in a call of the position utilities
MaxCoord == 1
\* most frames of one object
MaxFrames == 3
\* frame positions have x in {0, 1}, y = 0 and z in 0..MaxZ
MaxZ == 3
\* through-plane spacings are 1..MaxSpacing
MaxSpacing == 2
\* rows and columns are at most MaxDim
MaxDim == 2

\* ------------------------------------------------------- JavaScript values
Undefined == [type |-> "undefined"]
Null == [type |-> "null"]
\* the number n
Num(n) == [type |-> "number", n |-> n, form |-> 0]
\* a decimal string spelling n; form 0 is the shortest spelling ("1"),
\* form 1 another spelling of the same number ("1.0")
Str(n, form) == [type |-> "string", n |-> n, form |-> form]
NaN == [type |-> "number", n |-> 0, form |-> 2]

IsNaN(v) == v.form = 2

\* parseFloat: a number of either spelling, or a number itself
parseFloat(v) == Num(v.n)

\* ToNumber of a local that holds a number or undefined
ToNumber(v) == IF v = Undefined THEN NaN ELSE v

\* a - b on numbers (NaN when either is)
Minus(a, b) ==
  IF IsNaN(ToNumber(a)) \/ IsNaN(ToNumber(b)) THEN NaN ELSE Num(a.n - b.n)

\* Math.abs
MathAbs(a) == IF IsNaN(a) THEN NaN ELSE Num(IF a.n < 0 THEN -a.n ELSE a.n)

\* a >= b on numbers (false when either is NaN)
GreaterEq(a, b) ==
  /\ ~IsNaN(ToNumber(a))
  /\ ~IsNaN(ToNumber(b))
  /\ a.n >= b.n

\* JSON.stringify of an array of scalars: a number prints bare, a string
\* prints quoted with its own spelling
JSONstringify(arr) ==
  [k \in DOMAIN arr |->
     IF arr[k].type = "number"
       THEN [quoted |-> FALSE, n |-> arr[k].n, form |-> 0]
       ELSE [quoted |-> TRUE, n |-> arr[k].n, form |-> arr[k].form]]

\* ------------------------------------------------------ position utilities
equalPosPat(pos1, pos2) == JSONstringify(pos1) = JSONstringify(pos2)

RECURSIVE comparePosPatLoop(_, _, _)
\* the loop of comparePosPat with index counting down; positions are
\* triples here, so the null of an empty position is never returned
comparePosPatLoop(pos1, pos2, index) ==
  IF index = 0 THEN 0
  ELSE LET diff == pos2[index].n - pos1[index].n
       IN  IF diff # 0 THEN diff
           ELSE comparePosPatLoop(pos1, pos2, index - 1)

\* a comparison that stops at the last axis
comparePosPatLastAxis(pos1, pos2) == pos2[Len(pos2)].n - pos1[Len(pos1)].n

comparePosPat(pos1, pos2) == comparePosPatLoop(pos1, pos2, Len(pos1))

RECURSIVE InsertSorted(_, _)
InsertSorted(sorted, p) ==
  IF sorted = <<>> THEN <<p>>
  ELSE IF comparePosPat(Head(sorted), p) <= 0
         THEN <<Head(sorted)>> \o InsertSorted(Tail(sorted), p)
         ELSE <<p>> \o sorted

RECURSIVE SortLoop(_, _)
SortLoop(arr, sorted) ==
  IF arr = <<>> THEN sorted
  ELSE SortLoop(Tail(arr), InsertSorted(sorted, Head(arr)))

\* a sort that leaves the array as it is
keepOrder(arr) == arr

\* Array.prototype.sort with comparePosPat (a stable insertion sort)
sortPosPats(arr) == SortLoop(arr, <<>>)

includesPosPat(arr, val) ==
  \E k \in DOMAIN arr : equalPosPat(val, arr[k])

\* findIndex: the first matching index (1-based), 0 for JavaScript's -1
findIndexPosPat(arr, val) ==
  IF includesPosPat(arr, val)
    THEN CHOOSE k \in DOMAIN arr :
           /\ equalPosPat(val, arr[k])
           /\ \A m \in 1..(k - 1) : ~equalPosPat(val, arr[m])
    ELSE 0

arrayEquals(arr0, arr1) ==
  /\ Len(arr0) = Len(arr1)
  /\ \A k \in DOMAIN arr0 : arr0[k] = arr1[k]

\* ------------------------------------------------ external collaborators
\* dwv.dicom.cleanString: the string without its trailing padding
cleanString(str) ==
  CASE str = "BINARY " -> "BINARY"
    [] str = "3D " -> "3D"
    [] OTHER -> str

\* dwv.dicom.getSyntaxDecompressionName: the decompression algorithm of a
\* transfer syntax UID, "null" for an uncompressed one
getSyntaxDecompressionName(syntax) ==
  CASE syntax = "1.2.840.10008.1.2.4.90" -> "jpeg2000"
    [] syntax = "1.2.840.10008.1.2.4.50" -> "jpeg-baseline"
    [] syntax = "1.2.840.10008.1.2.5" -> "rle"
    [] OTHER -> "null"

\* dwv.utils.cielabToSrgb(dwv.utils.uintLabToLab(lab)) on the encoded
\* colours used here
cielabToSrgb(lab) ==
  CASE lab = <<34891, 53479, 50166>> -> [type |-> "rgb", r |-> 255, g |-> 0, b |-> 0]
    [] lab = <<57495, 10748, 54273>> -> [type |-> "rgb", r |-> 0, g |-> 255, b |-> 0]
    [] OTHER -> [type |-> "rgb", r |-> 10, g |-> 20, b |-> 30]

\* new dwv.image.Spacing(values)
Spacing(values) == [type |-> "Spacing", values |-> values]

\* dwv.image.Spacing.prototype.get: values[i], undefined past the end
SpacingGet(spacing, i) ==
  IF i + 1 \in DOMAIN spacing.values THEN spacing.values[i + 1] ELSE Undefined

\* dwv.image.Spacing.prototype.equals: component-wise, false for null
SpacingEquals(spacing, rhs) ==
  /\ rhs # Null
  /\ spacing.values = rhs.values

\* ---------------------------------------------------------------- errors
NoError == [message |-> "", detail |-> ""]
Error(message, detail) == [message |-> message, detail |-> detail]
TypeError(detail) == [message |-> "TypeError", detail |-> detail]

\* a reader's outcome: a thrown error or a returned value
Throw(e) == [threw |-> TRUE, error |-> e]
Return(v) == [threw |-> FALSE, value |-> v]

\* getFromKey result is falsy: the key is absent or holds 0 / ""
Has(element, key) == key \in DOMAIN element

\* a validator that looks at the segmentation type before the syntax
checkDicomSegTypeFirst(rootElement) ==
  LET syntax == cleanString(rootElement.x00020010)
      algoName == getSyntaxDecompressionName(syntax)
  IN
  IF ~Has(rootElement, "x00620001") \/ rootElement.x00620001 = ""
    THEN Throw(Error("Missing or empty DICOM segmentation type", ""))
  ELSE IF cleanString(rootElement.x00620001) # "BINARY"
    THEN Throw(Error("Unsupported segmentation type",
                     cleanString(rootElement.x00620001)))
  ELSE IF algoName # "null"
    THEN Throw(Error("Unsupported compressed segmentation", algoName))
  ELSE IF /\ Has(rootElement, "x00209311")
          /\ rootElement.x00209311 # ""
          /\ cleanString(rootElement.x00209311) # "3D"
    THEN Throw(Error("Unsupported dimension organization type",
                     cleanString(rootElement.x00209311)))
  ELSE Return(TRUE)

\* -------------------------------------------------------------- validator
checkDicomSeg(rootElement) ==
  LET syntax == cleanString(rootElement.x00020010)
      algoName == getSyntaxDecompressionName(syntax)
  IN
  IF algoName # "null"
    THEN Throw(Error("Unsupported compressed segmentation", algoName))
  ELSE IF ~Has(rootElement, "x00620001") \/ rootElement.x00620001 = ""
    THEN Throw(Error("Missing or empty DICOM segmentation type", ""))
  ELSE IF cleanString(rootElement.x00620001) # "BINARY"
    THEN Throw(Error("Unsupported segmentation type",
                     cleanString(rootElement.x00620001)))
  ELSE IF /\ Has(rootElement, "x00209311")
          /\ rootElement.x00209311 # ""
          /\ cleanString(rootElement.x00209311) # "3D"
    THEN Throw(Error("Unsupported dimension organization type",
                     cleanString(rootElement.x00209311)))
  ELSE Return(TRUE)

\* ------------------------------------------------------- dimension reader
getDimensionOrganization(rootElement) ==
  IF ~Has(rootElement, "x00209221") \/ Len(rootElement.x00209221) # 1
    THEN Throw(Error("Unsupported dimension organization sequence length", ""))
  ELSE
  LET orgs == <<cleanString(rootElement.x00209221[1].x00209164)>>
  IN
  IF ~Has(rootElement, "x00209222")
    THEN Return([organizations |-> orgs, indices |-> <<>>])
  ELSE
  LET indexSq == rootElement.x00209222
      indices == [k \in DOMAIN indexSq |->
                    IF Has(indexSq[k], "x00209421")
                      THEN [organization |-> cleanString(indexSq[k].x00209164),
                            pointer |-> cleanString(indexSq[k].x00209165),
                            label |-> cleanString(indexSq[k].x00209421)]
                      ELSE [organization |-> cleanString(indexSq[k].x00209164),
                            pointer |-> cleanString(indexSq[k].x00209165)]]
  IN
  IF Len(indexSq) # 2
    THEN Throw(Error("Unsupported dimension index sequence length", ""))
  ELSE IF \E k \in DOMAIN indexSq : indices[k].organization # orgs[1]
    THEN Throw(Error(
      "Dimension Index Sequence contains a unknown Dimension Organization", ""))
  ELSE IF indices[2].pointer # "(0020,0032)"
    THEN Throw(Error("Unsupported non image position as last index", ""))
  ELSE Return([organizations |-> orgs, indices |-> indices])

\* --------------------------------------------------------- segment reader
\* the segment record without its display value
SegmentBasics(element) ==
  IF Has(element, "x00620009")
    THEN [number |-> element.x00620004,
          label |-> cleanString(element.x00620005),
          algorithmType |-> cleanString(element.x00620008),
          algorithmName |-> cleanString(element.x00620009)]
    ELSE [number |-> element.x00620004,
          label |-> cleanString(element.x00620005),
          algorithmType |-> cleanString(element.x00620008)]

\* a record with one more field
With(rec, key, val) ==
  [k \in DOMAIN rec \cup {key} |-> IF k = key THEN val ELSE rec[k]]

\* the grayscale branch tests x0062000C and then reads x006200C, a key no
\* element has: reading .value of undefined throws
getSegment(element) ==
  IF Has(element, "x0062000C")
    THEN IF Has(element, "x006200C")
           THEN Return(With(SegmentBasics(element), "displayValue",
                            element.x006200C))
           ELSE Throw(TypeError("element.x006200C is undefined"))
  ELSE IF Has(element, "x0062000D")
    THEN Return(With(SegmentBasics(element), "displayValue",
                     cielabToSrgb(element.x0062000D)))
  ELSE Return(SegmentBasics(element))

\* --------------------------------------------------------- spacing reader
getSpacingFromMeasure(measure) ==
  IF ~Has(measure, "x00280030") THEN Null
  ELSE IF Has(measure, "x00180088")
    THEN Spacing(<<parseFloat(measure.x00280030[1]),
                   parseFloat(measure.x00280030[2]),
                   parseFloat(measure.x00180088)>>)
    ELSE Spacing(<<parseFloat(measure.x00280030[1]),
                   parseFloat(measure.x00280030[2])>>)

\* ------------------------------------------------------ frame-info reader
\* the in-place loop imagePosPat[p] = parseFloat(imagePosPat[p], 10)
ParsedPosPat(imagePosPat) ==
  [p \in DOMAIN imagePosPat |-> parseFloat(imagePosPat[p])]

\* one source image record of the derivation image sequence
SourceImage(item) ==
  [k \in (IF Has(item, "x00081150") THEN {"referencedSOPClassUID"} ELSE {})
      \cup (IF Has(item, "x00081155") THEN {"referencedSOPInstanceUID"} ELSE {})
     |-> IF k = "referencedSOPClassUID" THEN item.x00081150 ELSE item.x00081155]

DerivationImages(groupItem) ==
  IF ~Has(groupItem, "x00089124") THEN <<>>
  ELSE [k \in DOMAIN groupItem.x00089124 |->
          IF Has(groupItem.x00089124[k], "x00082112")
            THEN [m \in DOMAIN groupItem.x00089124[k].x00082112 |->
                    SourceImage(groupItem.x00089124[k].x00082112[m])]
            ELSE <<>>]

\* the frame information object; the sequences of one required item
\* (0020,9111), (0062,000A), (0020,9113) are written as that item's value
getSegmentFrameInfo(groupItem) ==
  LET frameInfo ==
        [dimIndex |-> groupItem.x00209111,
         imagePosPat |-> ParsedPosPat(groupItem.x00209113),
         derivationImages |-> DerivationImages(groupItem),
         refSegmentNumber |-> groupItem.x0062000A]
      withOrientation ==
        IF Has(groupItem, "x00209116") /\ Len(groupItem.x00209116) # 0
          THEN With(frameInfo, "imageOrientationPatient",
                    groupItem.x00209116[1].x00200037)
          ELSE frameInfo
  IN
  IF Has(groupItem, "x00289110") /\ Len(groupItem.x00289110) # 0
    THEN With(withOrientation, "spacing",
              getSpacingFromMeasure(groupItem.x00289110[1]))
    ELSE withOrientation

\* the group item once getSegmentFrameInfo has run on it: imagePosPat is
\* the element's own value array, so the parsed numbers land in the input
groupItemAfterRead(groupItem) ==
  [groupItem EXCEPT !.x00209113 = ParsedPosPat(@)]

\* ------------------------------------------------------------------ state
VARIABLES
  dicomElements,            \* the element tree handed to create
  pixelBuffer,              \* the frame pixels handed to create
  pc,                       \* where create is
  error,                    \* the error create raised
  sliceSize, frames, dimension,
  segments, storeAsRGB,
  spacing, imageOrientationPatient,
  frameInfos, framePosPats, ii,
  posPats, sliceSpacing, g, nextZ, diff,
  buffer, f,
  image,                    \* the volume create returned
  \* ZipLoader
  isLoading, filename, files, zobjs,
  promises,                 \* the promise callbacks not yet run
  loads,                    \* the load() calls made, each with its archive
  loadends,                 \* the onloadend events, each with its load
  \* DicomDataLoader
  dataIsLoading,
  conversions,              \* the conversions DicomBufferToView is running
  dataLoads, dataLoadends,
  \* a call of one of the pure functions
  call, result

inputs == <<dicomElements, pixelBuffer>>
header == <<sliceSize, frames, dimension>>
segs == <<segments, storeAsRGB>>
geom == <<spacing, imageOrientationPatient>>
scan == <<frameInfos, framePosPats, ii>>
fill == <<posPats, sliceSpacing, g, nextZ, diff>>
out == <<buffer, f, image>>
decoder == <<inputs, pc, error, header, segs, geom, scan, fill, out>>
zipLoader == <<isLoading, filename, files, zobjs, promises, loads, loadends>>
dataLoader == <<dataIsLoading, conversions, dataLoads, dataLoadends>>
harness == <<call, result>>
\* what create does not touch
aside == <<zipLoader, dataLoader, harness>>
vars == <<decoder, aside>>

\* a ZipLoader as constructed (zipLoader.js lines 29, 49-51)
ZipLoaderNew ==
  /\ isLoading = FALSE
  /\ filename = ""
  /\ files = <<>>
  /\ zobjs = Null
  /\ promises = {}
  /\ loads = <<>>
  /\ loadends = <<>>

\* a DicomDataLoader as constructed
DataLoaderNew ==
  /\ dataIsLoading = FALSE
  /\ conversions = {}
  /\ dataLoads = 0
  /\ dataLoadends = <<>>

\* no pure function is called
NoCall ==
  /\ call = Undefined
  /\ result = Undefined

\* create is not called
NoCreate ==
  /\ dicomElements = Undefined
  /\ pixelBuffer = <<>>
  /\ pc = "notCalled"
  /\ error = NoError
  /\ sliceSize = 0
  /\ frames = 0
  /\ dimension = Undefined
  /\ segments = <<>>
  /\ storeAsRGB = FALSE
  /\ spacing = Undefined
  /\ imageOrientationPatient = Undefined
  /\ frameInfos = <<>>
  /\ framePosPats = <<>>
  /\ ii = 0
  /\ posPats = <<>>
  /\ sliceSpacing = Undefined
  /\ g = 0
  /\ nextZ = Undefined
  /\ diff = Undefined
  /\ buffer = <<>>
  /\ f = 0
  /\ image = Undefined

\* create throws e
Raise(e) ==
  /\ pc' = "error"
  /\ error' = e

\* ------------------------------------------------- MaskFactory.create
\* dwv.dicom.checkDicomSeg(dicomElements)
CheckDicomSeg ==
  /\ pc = "checkDicomSeg"
  /\ LET r == checkDicomSeg(dicomElements)
     IN  IF r.threw THEN Raise(r.error)
         ELSE pc' = "size" /\ error' = error
  /\ UNCHANGED <<inputs, header, segs, geom, scan, fill, out>>
  /\ UNCHANGED aside

\* parseInt(frames, 10) of the decimal string of (0028,0008)
\* a parse that is one too high
parseIntPlusOne(v) == v.n + 1
parseInt(v) == v.n

\* columns, rows, sliceSize, frames and the buffer length check
ReadSize ==
  /\ pc = "size"
  /\ IF ~Has(dicomElements, "x00280011") \/ dicomElements.x00280011 = 0
       THEN /\ Raise(Error("Missing or empty DICOM image number of columns", ""))
            /\ UNCHANGED <<sliceSize, frames>>
     ELSE IF ~Has(dicomElements, "x00280010") \/ dicomElements.x00280010 = 0
       THEN /\ Raise(Error("Missing or empty DICOM image number of rows", ""))
            /\ UNCHANGED <<sliceSize, frames>>
     ELSE
       LET size == dicomElements.x00280011 * dicomElements.x00280010
           n == IF ~Has(dicomElements, "x00280008") THEN 1
                ELSE parseInt(dicomElements.x00280008)
       IN  /\ sliceSize' = size
           /\ frames' = n
           \* frames !== pixelBuffer.length / sliceSize
           /\ IF n * size # Len(pixelBuffer)
                THEN Raise(Error("Buffer and numberOfFrames meta are not equal.", ""))
                ELSE pc' = "dimension" /\ error' = error
  /\ UNCHANGED <<inputs, dimension, segs, geom, scan, fill, out>>
  /\ UNCHANGED aside

\* dwv.dicom.getDimensionOrganization(dicomElements)
ReadDimension ==
  /\ pc = "dimension"
  /\ LET r == getDimensionOrganization(dicomElements)
     IN  IF r.threw THEN Raise(r.error) /\ UNCHANGED dimension
         ELSE pc' = "segmentSequence" /\ error' = error /\ dimension' = r.value
  /\ UNCHANGED <<inputs, sliceSize, frames, segs, geom, scan, fill, out>>
  /\ UNCHANGED aside

\* the Segment Sequence must be there; the loop over it starts
ReadSegmentSequence ==
  /\ pc = "segmentSequence"
  /\ IF ~Has(dicomElements, "x00620002")
       THEN Raise(Error("Missing or empty segmentation sequence", ""))
       ELSE /\ pc' = IF Len(dicomElements.x00620002) = 0
                       THEN "sharedGroups" ELSE "segment"
            /\ error' = error
  /\ UNCHANGED <<inputs, header, segs, geom, scan, fill, out>>
  /\ UNCHANGED aside

\* a display value with r, g and b
IsRgb(displayValue) == displayValue.type = "rgb"

\* one turn of the segment loop: read item i, note RGB, store
ReadSegment ==
  /\ pc = "segment"
  /\ LET i == Len(segments) + 1
         r == getSegment(dicomElements.x00620002[i])
     IN  IF r.threw
           THEN Raise(r.error) /\ UNCHANGED segs
         ELSE IF ~Has(r.value, "displayValue")
           THEN /\ Raise(TypeError("segment.displayValue is undefined"))
                /\ UNCHANGED segs
         ELSE /\ segments' = Append(segments, r.value)
              /\ storeAsRGB' = (storeAsRGB \/ IsRgb(r.value.displayValue))
              /\ pc' = IF i = Len(dicomElements.x00620002)
                         THEN "sharedGroups" ELSE "segment"
              /\ error' = error
  /\ UNCHANGED <<inputs, header, geom, scan, fill, out>>
  /\ UNCHANGED aside

\* an array value held by a local
Array(value) == [type |-> "array", value |-> value]

\* the Shared Functional Groups Sequence: default orientation and spacing
ReadSharedFunctionalGroups ==
  /\ pc = "sharedGroups"
  /\ IF Has(dicomElements, "x52009229") /\ Len(dicomElements.x52009229) # 0
       THEN
         LET funcGroup0 == dicomElements.x52009229[1]
             hasOrientation ==
               /\ Has(funcGroup0, "x00209116")
               /\ Len(funcGroup0.x00209116) # 0
             hasMeasures ==
               /\ Has(funcGroup0, "x00289110")
               /\ Len(funcGroup0.x00289110) # 0
         IN
         /\ imageOrientationPatient' =
              IF hasOrientation
                THEN Array([k \in DOMAIN funcGroup0.x00209116[1].x00200037 |->
                              parseFloat(funcGroup0.x00209116[1].x00200037[k])])
                ELSE imageOrientationPatient
         /\ spacing' =
              IF hasMeasures
                THEN getSpacingFromMeasure(funcGroup0.x00289110[1])
                ELSE spacing
       ELSE UNCHANGED geom
  /\ pc' = "perFrameGroups"
  /\ UNCHANGED <<inputs, error, header, segs, scan, fill, out>>
  /\ UNCHANGED aside

\* the Per-frame Functional Groups Sequence must be there, one item a frame
ReadPerFrameSequence ==
  /\ pc = "perFrameGroups"
  /\ IF ~Has(dicomElements, "x52009230")
       THEN Raise(Error("Missing or empty per frame functional sequence", ""))
     ELSE IF frames # Len(dicomElements.x52009230)
       THEN Raise(Error(
         "perFrameFuncGroupSequence meta and numberOfFrames are not equal.", ""))
     ELSE /\ pc' = IF Len(dicomElements.x52009230) = 0
                     THEN "sortPosPats" ELSE "frameInfo"
          /\ error' = error
  /\ UNCHANGED <<inputs, header, segs, geom, scan, fill, out>>
  /\ UNCHANGED aside

\* one turn of the frame-info loop: getSegmentFrameInfo on item j, which
\* parses the item's position array in place
ReadFrameInfo ==
  /\ pc = "frameInfo"
  /\ LET j == Len(frameInfos) + 1
     IN  /\ frameInfos' =
              Append(frameInfos, getSegmentFrameInfo(dicomElements.x52009230[j]))
         /\ dicomElements' =
              [dicomElements EXCEPT !.x52009230[j] = groupItemAfterRead(@)]
         /\ pc' = IF j = Len(dicomElements.x52009230)
                    THEN "checkFrameInfos" ELSE "frameInfo"
  /\ UNCHANGED <<pixelBuffer, error, header, segs, geom, framePosPats, ii,
                 fill, out>>
  /\ UNCHANGED aside

\* one turn of the frame scan: collect the position if it is new, then
\* resolve or compare the orientation, then the spacing
CheckFrameInfo ==
  /\ pc = "checkFrameInfos"
  /\ LET info == frameInfos[ii + 1]
         orientationClash ==
           /\ Has(info, "imageOrientationPatient")
           /\ imageOrientationPatient # Undefined
           /\ ~arrayEquals(imageOrientationPatient.value,
                           info.imageOrientationPatient)
         \* spacing.equals on a spacing that is null
         spacingNull ==
           /\ Has(info, "spacing")
           /\ spacing = Null
         spacingClash ==
           /\ Has(info, "spacing")
           /\ spacing # Undefined
           /\ spacing # Null
           /\ ~SpacingEquals(spacing, info.spacing)
     IN
     /\ framePosPats' =
          IF includesPosPat(framePosPats, info.imagePosPat)
            THEN framePosPats
            ELSE Append(framePosPats, info.imagePosPat)
     /\ imageOrientationPatient' =
          IF Has(info, "imageOrientationPatient")
             /\ imageOrientationPatient = Undefined
            THEN Array(info.imageOrientationPatient)
            ELSE imageOrientationPatient
     /\ spacing' =
          IF ~orientationClash /\ Has(info, "spacing") /\ spacing = Undefined
            THEN info.spacing
            ELSE spacing
     /\ IF orientationClash
          THEN Raise(Error("Unsupported multi orientation dicom seg.", ""))
               /\ ii' = ii
        ELSE IF spacingNull
          THEN Raise(TypeError("spacing is null")) /\ ii' = ii
        ELSE IF spacingClash
          THEN Raise(Error("Unsupported multi resolution dicom seg.", ""))
               /\ ii' = ii
        ELSE /\ ii' = ii + 1
             /\ pc' = IF ii + 1 = Len(frameInfos)
                        THEN "sortPosPats" ELSE "checkFrameInfos"
             /\ error' = error
  /\ UNCHANGED <<inputs, header, segs, frameInfos, fill, out>>
  /\ UNCHANGED aside

\* where the gap-fill loop goes once the pair at index gg is done or to do
AfterPair(gg) ==
  IF gg < Len(framePosPats) - 1 THEN "addPosPat" ELSE "lastPosPat"

\* framePosPats.sort, the spacing and orientation checks, sliceSpacing
SortPosPats ==
  /\ pc = "sortPosPats"
  /\ framePosPats' = sortPosPats(framePosPats)
  /\ IF spacing = Undefined
       THEN /\ Raise(Error("No spacing found for DICOM SEG", ""))
            /\ UNCHANGED sliceSpacing
     ELSE IF imageOrientationPatient = Undefined
       THEN /\ Raise(Error("No imageOrientationPatient found for DICOM SEG", ""))
            /\ UNCHANGED sliceSpacing
     ELSE IF spacing = Null
       THEN /\ Raise(TypeError("spacing is null"))
            /\ UNCHANGED sliceSpacing
     ELSE /\ sliceSpacing' = SpacingGet(spacing, 2)
          /\ pc' = AfterPair(0)
          /\ error' = error
  /\ UNCHANGED <<inputs, header, segs, geom, frameInfos, ii, posPats, g,
                 nextZ, diff, out>>
  /\ UNCHANGED aside

\* the z of a position
Z(posPat) == posPat[3]

\* one turn of the outer loop: push framePosPats[g], the first expected z
\* and its distance to the next frame position, and the while test
AddPosPat ==
  /\ pc = "addPosPat"
  /\ LET z0 == Minus(Z(framePosPats[g + 1]), sliceSpacing)
         d0 == MathAbs(Minus(z0, Z(framePosPats[g + 2])))
     IN  /\ posPats' = Append(posPats, framePosPats[g + 1])
         /\ nextZ' = z0
         /\ diff' = d0
         /\ IF GreaterEq(d0, sliceSpacing)
              THEN pc' = "addMissingPosPat" /\ g' = g
              ELSE pc' = AfterPair(g + 1) /\ g' = g + 1
  /\ UNCHANGED <<inputs, error, header, segs, geom, scan, sliceSpacing, out>>
  /\ UNCHANGED aside

\* one turn of the while loop: push the synthetic position at nextZ, step
\* nextZ down by the slice spacing, and the while test
AddMissingPosPat ==
  /\ pc = "addMissingPosPat"
  \* the model follows the loop down to z = 0, below every frame position
  /\ nextZ.n >= 0
  /\ LET z1 == Minus(nextZ, sliceSpacing)
         d1 == MathAbs(Minus(z1, Z(framePosPats[g + 2])))
     IN  /\ posPats' = Append(posPats,
              <<framePosPats[g + 1][1], framePosPats[g + 1][2], nextZ>>)
         /\ nextZ' = z1
         /\ diff' = d1
         /\ IF GreaterEq(d1, sliceSpacing)
              THEN pc' = "addMissingPosPat" /\ g' = g
              ELSE pc' = AfterPair(g + 1) /\ g' = g + 1
  /\ UNCHANGED <<inputs, error, header, segs, geom, scan, sliceSpacing, out>>
  /\ UNCHANGED aside

\* posPats.push(framePosPats[framePosPats.length - 1])
AddLastPosPat ==
  /\ pc = "lastPosPat"
  /\ posPats' = Append(posPats, framePosPats[Len(framePosPats)])
  /\ pc' = "allocate"
  /\ UNCHANGED <<inputs, error, header, segs, geom, scan, sliceSpacing, g,
                 nextZ, diff, out>>
  /\ UNCHANGED aside

\* channels of the output buffer
\* the channel count taken the wrong way round
MulSwapped == IF storeAsRGB THEN 1 ELSE 3
Mul == IF storeAsRGB THEN 3 ELSE 1

\* new pixelBuffer.constructor(mul * sliceSize * numberOfSlices), fill(0)
AllocateBuffer ==
  /\ pc = "allocate"
  /\ buffer' = [k \in 1..(Mul * sliceSize * Len(posPats)) |-> 0]
  /\ f' = 0
  /\ pc' = IF Len(frameInfos) = 0 THEN "geometry" ELSE "mergeFrame"
  /\ UNCHANGED <<inputs, error, header, segs, geom, scan, fill, image>>
  /\ UNCHANGED aside

\* segments.find: the first segment with the number, 0 when there is none
findSegment(number) ==
  IF \E k \in DOMAIN segments : segments[k].number = number
    THEN CHOOSE k \in DOMAIN segments :
           /\ segments[k].number = number
           /\ \A m \in 1..(k - 1) : segments[m].number # number
    ELSE 0

\* what a typed integer array stores for channel c of a display value:
\* the r, g, b of an RGB value; for a scalar in an RGB buffer the
\* undefined property stores 0
Stored(pixelValue, c) ==
  IF storeAsRGB
    THEN IF IsRgb(pixelValue)
           THEN (CASE c = 0 -> pixelValue.r [] c = 1 -> pixelValue.g
                   [] OTHER -> pixelValue.b)
           ELSE 0
    ELSE pixelValue.n

\* a merge that never overwrites a voxel an earlier frame has written
MergedBufferFirstWins(ff, sliceIndex, pixelValue) ==
  LET frameOffset == sliceSize * ff
      sliceOffset == sliceSize * sliceIndex
      Hit(k) ==
        \E l \in 0..(sliceSize - 1) : \E c \in 0..(Mul - 1) :
          /\ pixelBuffer[frameOffset + l + 1] # 0
          /\ k - 1 = Mul * (sliceOffset + l) + c
      ChannelOf(k) == (k - 1) % Mul
      Written(k) ==
        \E c \in 0..(Mul - 1) : buffer[k - ChannelOf(k) + c] # 0
  IN  [k \in DOMAIN buffer |->
         IF Hit(k) /\ ~Written(k)
           THEN Stored(pixelValue, ChannelOf(k)) ELSE buffer[k]]

\* the buffer once frame ff (0-based) with display value pixelValue is
\* written at slice sliceIndex (0-based, -1 when not found: such writes
\* fall outside a typed array and are dropped)
MergedBuffer(ff, sliceIndex, pixelValue) ==
  LET frameOffset == sliceSize * ff
      sliceOffset == sliceSize * sliceIndex
      Hit(k) ==
        \E l \in 0..(sliceSize - 1) : \E c \in 0..(Mul - 1) :
          /\ pixelBuffer[frameOffset + l + 1] # 0
          /\ k - 1 = Mul * (sliceOffset + l) + c
      ChannelOf(k) == (k - 1) % Mul
  IN  [k \in DOMAIN buffer |->
         IF Hit(k) THEN Stored(pixelValue, ChannelOf(k)) ELSE buffer[k]]

\* one turn of the merge loop: frame f into its slice
MergeFrame ==
  /\ pc = "mergeFrame"
  /\ LET info == frameInfos[f + 1]
         sliceIndex == findIndexPosPat(posPats, info.imagePosPat) - 1
         found == findSegment(info.refSegmentNumber)
     IN  IF found = 0
           THEN Raise(TypeError("frameSegment is undefined"))
                /\ UNCHANGED <<buffer, f>>
           ELSE /\ buffer' = MergedBuffer(f, sliceIndex,
                                          segments[found].displayValue)
                /\ f' = f + 1
                /\ pc' = IF f + 1 = Len(frameInfos)
                           THEN "geometry" ELSE "mergeFrame"
                /\ error' = error
  /\ UNCHANGED <<inputs, header, segs, geom, scan, fill, image>>
  /\ UNCHANGED aside

\* geometry, image, photometric interpretation and meta; create returns
BuildImage ==
  /\ pc = "geometry"
  /\ image' = [origin |-> posPats[1],
               numberOfSlices |-> Len(posPats),
               photometricInterpretation |->
                 IF storeAsRGB THEN "RGB" ELSE "default",
               meta |-> [Modality |-> "SEG",
                         SegmentationType |-> "BINARY",
                         DimensionOrganizationType |-> "3D",
                         BitsStored |-> 8]]
  /\ pc' = "done"
  /\ UNCHANGED <<inputs, error, header, segs, geom, scan, fill, buffer, f>>
  /\ UNCHANGED aside

Next ==
  \/ CheckDicomSeg
  \/ ReadSize
  \/ ReadDimension
  \/ ReadSegmentSequence
  \/ ReadSegment
  \/ ReadSharedFunctionalGroups
  \/ ReadPerFrameSequence
  \/ ReadFrameInfo
  \/ CheckFrameInfo
  \/ SortPosPats
  \/ AddPosPat
  \/ AddMissingPosPat
  \/ AddLastPosPat
  \/ AllocateBuffer
  \/ MergeFrame
  \/ BuildImage

\* ------------------------------------------------------------- inputs
\* The element tree as the parser builds it: decimal strings for positions,
\* orientations and spacings; numbers for rows, columns, segment numbers.
ExplicitVRLittleEndian == "1.2.840.10008.1.2.1"
LabRed == <<34891, 53479, 50166>>
LabGreen == <<57495, 10748, 54273>>

\* a decimal-string array spelling the numbers of arr
Strings(arr, form) == [k \in DOMAIN arr |-> Str(arr[k], form)]

Axial == <<1, 0, 0, 0, 1, 0>>
Coronal == <<1, 0, 0, 0, 0, -1>>

\* a Plane Orientation Sequence of one item
OrientationSq(arr, form) == <<[x00200037 |-> Strings(arr, form)]>>

\* Pixel Measures items: with Spacing Between Slices s, without it, and
\* without Pixel Spacing
Measure3(s, form) ==
  [x00280030 |-> Strings(<<1, 1>>, form), x00180088 |-> Str(s, form)]
Measure2 == [x00280030 |-> Strings(<<1, 1>>, 0)]
MeasureNoPixelSpacing == [x00180088 |-> Str(1, 0)]

\* a Segment Sequence item with the CIELab tag, the grayscale tag, neither
LabSegment(number, lab) ==
  [x00620004 |-> number, x00620005 |-> "label", x00620008 |-> "MANUAL",
   x0062000D |-> lab]
GraySegment(number, gray) ==
  [x00620004 |-> number, x00620005 |-> "label", x00620008 |-> "MANUAL",
   x0062000C |-> Num(gray)]
BareSegment(number) ==
  [x00620004 |-> number, x00620005 |-> "label", x00620008 |-> "MANUAL"]

\* a Per-frame Functional Groups item: position (x, 0, z), segment ref
Position(x, z, form) == Strings(<<x, 0, z>>, form)
FrameItem(posPat, ref) ==
  [x00209111 |-> <<1, 1>>, x0062000A |-> ref, x00209113 |-> posPat]

\* a well-formed element tree around the given parts
Root(columns, rows, segSq, perFrameSq) ==
  [x00020010 |-> ExplicitVRLittleEndian,
   x00620001 |-> "BINARY",
   x00280011 |-> columns,
   x00280010 |-> rows,
   x00280008 |-> Str(Len(perFrameSq), 0),
   x00209221 |-> <<[x00209164 |-> "1.2.3"]>>,
   x00620002 |-> segSq,
   x52009230 |-> perFrameSq,
   x0020000E |-> "1.2.3.4"]

\* rec with the fields of more added or replaced
Override(rec, more) ==
  [k \in DOMAIN rec \cup DOMAIN more |->
     IF k \in DOMAIN more THEN more[k] ELSE rec[k]]

\* rec without the fields named in keys
Without(rec, keys) == [k \in DOMAIN rec \ keys |-> rec[k]]

SharedSq(orientationSq, measure) ==
  <<[x00209116 |-> orientationSq, x00289110 |-> <<measure>>]>>

\* n frames of all-ones pixels
Ones(n) == [k \in 1..n |-> 1]

\* an optional element: there with value v, or not there
Some(v) == [has |-> TRUE, v |-> v]
None == [has |-> FALSE]

\* rec with element key set from the option, or without it
Put(rec, key, opt) ==
  IF opt.has THEN Override(rec, key :> opt.v) ELSE Without(rec, {key})

\* create is called with this element tree and these pixels
Call(elements, pixels) ==
  /\ dicomElements = elements
  /\ pixelBuffer = pixels

\* frames whose positions step down by 1 from z = n - 1, spelled either way
SteppedFrames(n, ref) ==
  [j \in 1..n |-> FrameItem(Position(0, n - j, j % 2), ref)]

\* a one-frame, one-pixel object that decodes
Plain ==
  Override(Root(1, 1, <<LabSegment(1, LabRed)>>, SteppedFrames(1, 1)),
           [x52009229 |-> SharedSq(OrientationSq(Axial, 0), Measure3(1, 0))])

\* Positions: any frame positions, any through-plane spacing or none
PositionInputs ==
  \E n \in 1..MaxFrames :
    \E ps \in [1..n -> {Position(x, z, 0) : x \in {0, 1}, z \in 0..MaxZ}] :
      \E m \in {Measure3(s, 0) : s \in 1..MaxSpacing} \cup {Measure2} :
        Call(Override(Root(1, 1, <<LabSegment(1, LabRed)>>,
                           [j \in 1..n |-> FrameItem(ps[j], 1)]),
                      [x52009229 |-> SharedSq(OrientationSq(Axial, 0), m)]),
             Ones(n))

\* Validator and dimension reader: every header, columns there or not
ValidatorInputs ==
  \E syntax \in {ExplicitVRLittleEndian, "1.2.840.10008.1.2.4.90",
                 "1.2.840.10008.1.2.4.50", "1.2.840.10008.1.2.5"} :
  \E segType \in {None, Some(""), Some("BINARY"), Some("BINARY "),
                  Some("FRACTIONAL")} :
  \E orgType \in {None, Some(""), Some("3D"), Some("3D "),
                  Some("TILED_FULL")} :
  \E orgSq \in {None, Some(<<>>), Some(<<[x00209164 |-> "1.2.3"]>>),
                Some(<<[x00209164 |-> "1.2.3"], [x00209164 |-> "1.2.9"]>>)} :
  \E indexSq \in
       {None,
        Some(<<[x00209164 |-> "1.2.3", x00209165 |-> "(0020,0032)"]>>),
        Some(<<[x00209164 |-> "1.2.3", x00209165 |-> "(0062,000B)"],
               [x00209164 |-> "1.2.3", x00209165 |-> "(0020,0032)"]>>),
        Some(<<[x00209164 |-> "1.2.3", x00209165 |-> "(0062,000B)",
                x00209421 |-> "segment"],
               [x00209164 |-> "1.2.3", x00209165 |-> "(0020,0032)",
                x00209421 |-> "position"]>>),
        Some(<<[x00209164 |-> "1.2.9", x00209165 |-> "(0062,000B)"],
               [x00209164 |-> "1.2.3", x00209165 |-> "(0020,0032)"]>>),
        Some(<<[x00209164 |-> "1.2.3", x00209165 |-> "(0020,0032)"],
               [x00209164 |-> "1.2.3", x00209165 |-> "(0062,000B)"]>>)} :
  \E columns \in {None, Some(1)} :
  \E bufferLength \in {1, 2} :
    Call(Put(Put(Put(Put(Put(
           [Plain EXCEPT !.x00020010 = syntax],
           "x00620001", segType), "x00209311", orgType), "x00209221", orgSq),
           "x00209222", indexSq), "x00280011", columns),
         Ones(bufferLength))

\* Counts: rows, columns, declared frames, buffer length, per-frame items;
\* a segment the reader accepts or one it throws on
CountInputs ==
  \E columns \in {None} \cup {Some(n) : n \in 0..MaxDim} :
  \E rows \in {None} \cup {Some(n) : n \in 0..MaxDim} :
  \E declared \in {None} \cup {Some(Str(n, 0)) : n \in 1..MaxFrames} :
  \E perFrameSq \in
       {None} \cup {Some(SteppedFrames(n, 1)) : n \in 0..MaxFrames} :
  \E bufferLength \in 0..(MaxDim * MaxFrames) :
  \E seg \in {LabSegment(1, LabRed), GraySegment(1, 5)} :
    Call(Put(Put(Put(Put(
           Override(Root(1, 1, <<seg>>, <<>>),
                    [x52009229 |-> SharedSq(OrientationSq(Axial, 0),
                                            Measure3(1, 0))]),
           "x00280011", columns), "x00280010", rows), "x00280008", declared),
           "x52009230", perFrameSq),
         Ones(bufferLength))

\* what a frame or the shared group may say of orientation and of spacing
FrameOrientations ==
  {None, Some(<<>>), Some(OrientationSq(Axial, 0)),
   Some(OrientationSq(Axial, 1)), Some(OrientationSq(Coronal, 0))}
FrameMeasures ==
  {None, Some(<<MeasureNoPixelSpacing>>), Some(<<Measure3(1, 0)>>),
   Some(<<Measure3(1, 1)>>), Some(<<Measure3(2, 0)>>)}
SharedOrientations ==
  {None, Some(<<>>), Some(OrientationSq(Axial, 0)),
   Some(OrientationSq(Coronal, 0))}
SharedMeasures ==
  {None, Some(<<>>), Some(<<MeasureNoPixelSpacing>>), Some(<<Measure2>>),
   Some(<<Measure3(1, 0)>>)}

\* the two-frame object with these per-frame and shared groups
GeometryCall(o1, m1, o2, m2, shared) ==
  Call(Put(Root(1, 1, <<LabSegment(1, LabRed)>>,
                <<Put(Put(FrameItem(Position(0, 1, 0), 1),
                          "x00209116", o1), "x00289110", m1),
                  Put(Put(FrameItem(Position(0, 0, 0), 1),
                          "x00209116", o2), "x00289110", m2)>>),
           "x52009229", shared),
       Ones(2))

\* Geometry: where orientation and spacing come from, two frames
GeometryInputs ==
  \E o1 \in FrameOrientations : \E m1 \in FrameMeasures :
  \E o2 \in FrameOrientations : \E m2 \in FrameMeasures :
    \/ \E shared \in {None, Some(<<>>)} : GeometryCall(o1, m1, o2, m2, shared)
    \/ \E o \in SharedOrientations : \E m \in SharedMeasures :
         GeometryCall(o1, m1, o2, m2,
           Some(<<Put(Put([x00209116 |-> <<>>], "x00209116", o),
                      "x00289110", m)>>))

\* the kinds of segment item
SegmentItems ==
  {LabSegment(1, LabRed), LabSegment(2, LabGreen), GraySegment(2, 5),
   BareSegment(2),
   Override(LabSegment(2, LabGreen),
            [x0062000C |-> Num(5), x00620009 |-> "algo"])}

\* Segments: every kind of segment item, a frame that refers to 1 or 2
SegmentInputs ==
  \E n \in 0..2 : \E segSq \in [1..n -> SegmentItems] : \E ref \in {1, 2} :
    Call(Override(Root(1, 1, segSq, SteppedFrames(1, ref)),
                  [x52009229 |-> SharedSq(OrientationSq(Axial, 0),
                                          Measure3(1, 0))]),
         Ones(1))

\* Scatter: two-pixel frames at z = 2 or z = 0, any pixels, segments of
\* one or two colours, spacing 1 (a synthetic slice between) or 2
ScatterInputs ==
  \E ns \in 1..2 : \E n \in 1..2 :
  \E segSq \in [1..ns -> {LabSegment(1, LabRed), LabSegment(2, LabGreen),
                          LabSegment(1, LabGreen)}] :
  \E fr \in [1..n -> {0, 2} \X {1, 2}] :
  \E s \in {1, 2} :
  \E pixels \in [1..(2 * n) -> {0, 1}] :
    Call(Override(Root(2, 1, segSq,
                       [j \in 1..n |->
                          FrameItem(Position(0, fr[j][1], 0), fr[j][2])]),
                  [x52009229 |-> SharedSq(OrientationSq(Axial, 0),
                                          Measure3(s, 0))]),
         pixels)

\* the element tree of frames at the given z, spacing s, rows x columns
Scenario(columns, rows, seg, zs, s) ==
  Override(Root(columns, rows, <<seg>>,
                [j \in DOMAIN zs |-> FrameItem(Position(0, zs[j], 0), 1)]),
           [x52009229 |-> SharedSq(OrientationSq(Axial, 0), Measure3(s, 0))])

\* the scenarios the documentation names
GapFillScenario == Scenario(1, 1, LabSegment(1, LabRed), <<10, 10, 6>>, 2)
SortScenario == Scenario(1, 1, LabSegment(1, LabRed), <<0, 2, 1>>, 1)
ScalarScenario == Scenario(2, 2, GraySegment(1, 5), <<0>>, 1)
RgbScenario == Scenario(2, 2, LabSegment(1, <<1, 2, 3>>), <<0>>, 1)

\* two frames of different segments at z = 2, one at z = 0, spacing 1
OverlapScenario ==
  Override(Root(2, 1, <<LabSegment(1, LabRed), LabSegment(2, LabGreen)>>,
                <<FrameItem(Position(0, 2, 0), 1),
                  FrameItem(Position(0, 2, 0), 2),
                  FrameItem(Position(0, 0, 0), 1)>>),
           [x52009229 |-> SharedSq(OrientationSq(Axial, 0), Measure3(1, 0))])

ScenarioInputs ==
  \/ Call(GapFillScenario, Ones(3))
  \/ Call(SortScenario, Ones(3))
  \/ Call(ScalarScenario, <<1, 0, 0, 1>>)
  \/ Call(RgbScenario, <<1, 0, 0, 1>>)
  \/ \E pixels \in [1..6 -> {0, 1}] : Call(OverlapScenario, pixels)

Inputs ==
  \/ PositionInputs
  \/ ValidatorInputs
  \/ CountInputs
  \/ GeometryInputs
  \/ SegmentInputs
  \/ ScatterInputs
  \/ ScenarioInputs

Init ==
  /\ Inputs
  /\ pc = "checkDicomSeg"
  /\ error = NoError
  /\ sliceSize = 0
  /\ frames = 0
  /\ dimension = Undefined
  /\ segments = <<>>
  /\ storeAsRGB = FALSE
  /\ spacing = Undefined
  /\ imageOrientationPatient = Undefined
  /\ frameInfos = <<>>
  /\ framePosPats = <<>>
  /\ ii = 0
  /\ posPats = <<>>
  /\ sliceSpacing = Undefined
  /\ g = 0
  /\ nextZ = Undefined
  /\ diff = Undefined
  /\ buffer = <<>>
  /\ f = 0
  /\ image = Undefined
  /\ ZipLoaderNew
  /\ DataLoaderNew
  /\ NoCall

Spec == Init /\ [][Next]_vars

\* -------------------------------------------------------------- ZipLoader
\* An archive is the kinds of its entries in order; entry k of the archive
\* of load number id is named <<id, k>> and unzips to its own name.
Archives ==
  UNION {[1..n -> {"dcm", "txt"}] : n \in 0..MaxEntries}

\* zip.file(/.*\.dcm/): the entries whose name matches
ZipFile(id, archive) ==
  LET Dcm(e) == e.kind = "dcm"
  IN  SelectSeq([k \in DOMAIN archive |->
                   [name |-> <<id, k>>, kind |-> archive[k]]], Dcm)

\* the promise of zobjs[num].async('arrayBuffer') made for load id
EntryPromise(id, zobj) == [kind |-> "entry", load |-> id, content |-> zobj.name]

\* load(buffer, origin, index): loadstart, flag, JSZip.loadAsync
Load ==
  /\ Len(loads) < MaxLoads
  /\ \E archive \in Archives :
       /\ loads' = Append(loads, archive)
       /\ promises' =
            promises \cup {[kind |-> "loadAsync", load |-> Len(loads) + 1]}
  /\ isLoading' = TRUE
  /\ UNCHANGED <<filename, files, zobjs, loadends>>
  /\ UNCHANGED <<decoder, dataLoader, harness>>

\* the callback of JSZip.loadAsync(buffer).then: with no matching entry
\* zobjs[0].name throws inside the callback and nothing follows
LoadAsyncThen ==
  \E p \in promises :
    /\ p.kind = "loadAsync"
    /\ files' = <<>>
    /\ zobjs' = ZipFile(p.load, loads[p.load])
    /\ IF zobjs' = <<>>
         THEN /\ promises' = promises \ {p}
              /\ UNCHANGED filename
         ELSE /\ filename' = zobjs'[1].name
              /\ promises' =
                   (promises \ {p}) \cup {EntryPromise(p.load, zobjs'[1])}
    /\ UNCHANGED <<isLoading, loads, loadends>>
    /\ UNCHANGED <<decoder, dataLoader, harness>>

\* #zipAsyncCallback(content, origin, index): store the file, then unzip
\* the next entry or hand the files to a MemoryLoader
ZipAsyncCallback ==
  \E p \in promises :
    /\ p.kind = "entry"
    /\ files' = Append(files, [filename |-> filename, data |-> p.content])
    /\ IF Len(files') < Len(zobjs)
         THEN /\ filename' = zobjs[Len(files') + 1].name
              /\ promises' =
                   (promises \ {p})
                     \cup {EntryPromise(p.load, zobjs[Len(files') + 1])}
         ELSE /\ promises' =
                   (promises \ {p}) \cup {[kind |-> "memory", load |-> p.load]}
              /\ UNCHANGED filename
    /\ UNCHANGED <<isLoading, zobjs, loads, loadends>>
    /\ UNCHANGED <<decoder, dataLoader, harness>>

\* memoryIO.onloadend: the MemoryLoader of a load is done
MemoryLoadEnd ==
  \E p \in promises :
    /\ p.kind = "memory"
    /\ isLoading' = FALSE
    /\ loadends' = Append(loadends, [load |-> p.load, by |-> "memory"])
    /\ promises' = promises \ {p}
    /\ UNCHANGED <<filename, files, zobjs, loads>>
    /\ UNCHANGED <<decoder, dataLoader, harness>>

\* the abort() calls made so far
Aborts(ends) == Len(SelectSeq(ends, LAMBDA e : e.by = "abort"))

\* abort(): flag, onabort, onloadend; the event is that of the latest load
Abort ==
  /\ Aborts(loadends) < MaxAborts
  /\ isLoading' = FALSE
  /\ loadends' = Append(loadends, [load |-> Len(loads), by |-> "abort"])
  /\ UNCHANGED <<filename, files, zobjs, promises, loads>>
  /\ UNCHANGED <<decoder, dataLoader, harness>>

\* -------------------------------------------------------- DicomDataLoader
\* load(buffer, origin, index): handlers when not loading, flag, convert
DataLoad ==
  /\ dataLoads < MaxLoads
  /\ dataLoads' = dataLoads + 1
  /\ dataIsLoading' = TRUE
  /\ conversions' = conversions \cup {dataLoads + 1}
  /\ UNCHANGED dataLoadends
  /\ UNCHANGED <<decoder, zipLoader, harness>>

\* db2v.onloadend: a conversion is done
DataLoadEnd ==
  \E c \in conversions :
    /\ dataIsLoading' = FALSE
    /\ dataLoadends' = Append(dataLoadends, [load |-> c, by |-> "convert"])
    /\ conversions' = conversions \ {c}
    /\ UNCHANGED dataLoads
    /\ UNCHANGED <<decoder, zipLoader, harness>>

\* abort(): flag, db2v.abort()
DataAbort ==
  /\ Aborts(dataLoadends) < MaxAborts
  /\ dataIsLoading' = FALSE
  /\ dataLoadends' = Append(dataLoadends, [load |-> dataLoads, by |-> "abort"])
  /\ conversions' = {}
  /\ UNCHANGED dataLoads
  /\ UNCHANGED <<decoder, zipLoader, harness>>

LoaderInit ==
  /\ NoCreate
  /\ ZipLoaderNew
  /\ DataLoaderNew
  /\ NoCall

LoaderNext ==
  \/ Load
  \/ LoadAsyncThen
  \/ ZipAsyncCallback
  \/ MemoryLoadEnd
  \/ Abort
  \/ DataLoad
  \/ DataLoadEnd
  \/ DataAbort

LoaderSpec == LoaderInit /\ [][LoaderNext]_vars

\* --------------------------------------------------------- vocabulary
Returned == pc = "done"
Raised == pc = "error"

\* the position list is complete: line 550 has run
PosPatsComplete ==
  \/ pc \in {"allocate", "mergeFrame", "geometry", "done"}
  \/ Raised /\ buffer # <<>>

\* the agreed spacing has a through-plane component
HasSliceSpacing == sliceSpacing # Undefined

\* ----------------------------------------------------------------- C1
\* In the while loop with a positive slice spacing, the expected z has
\* fallen a whole spacing or more below the next frame position: every
\* further turn lowers it by the spacing again, so its distance to that
\* position only grows and the while test stays true for ever.
GapFillDiverged ==
  /\ pc = "addMissingPosPat"
  /\ HasSliceSpacing
  /\ sliceSpacing.n > 0
  /\ nextZ.n + sliceSpacing.n <= Z(framePosPats[g + 2]).n

\* C1: create always terminates: with a positive through-plane spacing the
\* gap-fill loop of every adjacent pair exits after finitely many
\* insertions, so it never reaches a state it cannot leave; this includes
\* two frame positions with the same z that differ in x or y.
C1_GapFillTerminates == ~GapFillDiverged

\* ----------------------------------------------------------------- C2
\* a < b on numbers (false when either is NaN)
Less(a, b) ==
  /\ ~IsNaN(ToNumber(a))
  /\ ~IsNaN(ToNumber(b))
  /\ a.n < b.n

\* consecutive completed positions k, k + 1 are strictly ordered in z
StrictlyOrdered(k) == Z(posPats[k]).n > Z(posPats[k + 1]).n

\* consecutive completed positions k, k + 1 are less than one slice
\* spacing away from the expected step
GapFree(k) ==
  Less(MathAbs(Minus(Minus(Z(posPats[k]), sliceSpacing), Z(posPats[k + 1]))),
       sliceSpacing)

NoPositionTwice ==
  \A k, m \in DOMAIN posPats : posPats[k] = posPats[m] => k = m

\* C2: the completed position list is strictly ordered and gap-free: every
\* consecutive pair has q[k].z > q[k+1].z and |(q[k].z - s) - q[k+1].z| < s
\* for the agreed through-plane spacing s (read as nothing to ask of the
\* gaps when the spacing has no through-plane component), and no position
\* occurs twice.
C2_StrictlyOrderedGapFree ==
  PosPatsComplete =>
    /\ \A k \in 1..(Len(posPats) - 1) :
         /\ StrictlyOrdered(k)
         /\ HasSliceSpacing => GapFree(k)
    /\ NoPositionTwice

\* what remains of C2 where the spacing has a through-plane component
C2_WithSliceSpacing ==
  (PosPatsComplete /\ HasSliceSpacing) =>
    /\ \A k \in 1..(Len(posPats) - 1) : StrictlyOrdered(k) /\ GapFree(k)
    /\ NoPositionTwice

\* ----------------------------------------------------------------- C3
\* channels of the output: 3 when some segment has an RGB display value
Channels ==
  IF \E k \in DOMAIN segments : IsRgb(segments[k].displayValue)
    THEN 3 ELSE 1

\* the first n frames, in input order, that sit at completed position k
\* (0-based) and mark pixel l
MarkingFrames(k, l, n) ==
  {j \in 1..n :
     /\ frameInfos[j].imagePosPat = posPats[k + 1]
     /\ pixelBuffer[(j - 1) * sliceSize + l + 1] # 0}

\* the segment frame j refers to: the first one with its number
ReferencedSegment(j) ==
  segments[CHOOSE m \in DOMAIN segments :
             /\ segments[m].number = frameInfos[j].refSegmentNumber
             /\ \A mm \in 1..(m - 1) :
                  segments[mm].number # frameInfos[j].refSegmentNumber]

\* channel c of a display value: r, g, b of an RGB value, the value itself
\* at the voxel's offset for a scalar
ChannelValue(displayValue, c) ==
  IF IsRgb(displayValue)
    THEN (CASE c = 0 -> displayValue.r [] c = 1 -> displayValue.g
            [] OTHER -> displayValue.b)
    ELSE IF c = 0 THEN displayValue.n ELSE 0

\* what the voxel (k, l), channel c, holds once n frames are merged
ExpectedVoxel(k, l, c, n) ==
  IF MarkingFrames(k, l, n) = {} THEN 0
  ELSE LET last == CHOOSE j \in MarkingFrames(k, l, n) :
                     \A jj \in MarkingFrames(k, l, n) : jj <= j
       IN  ChannelValue(ReferencedSegment(last).displayValue, c)

\* C3: for every slice k and pixel l the output voxel at
\* channels * (k * sliceSize + l) holds the display value of the segment
\* referenced by the last frame, in input order, that sits at completed
\* position k and marks pixel l, and zero when there is none (so all of a
\* synthetic slice is zero); after each merged frame as in the volume
\* returned.
C3_LastFrameWins ==
  pc \in {"mergeFrame", "geometry", "done"} =>
    \A k \in 0..(Len(posPats) - 1) : \A l \in 0..(sliceSize - 1) :
      \A c \in 0..(Channels - 1) :
        buffer[Channels * (k * sliceSize + l) + c + 1]
          = ExpectedVoxel(k, l, c, f)

\* a volume is returned in which two frames of one position mark the same
\* pixel for segments of different display values, next to a synthetic slice
C3_Witness ==
  /\ Returned
  /\ Len(posPats) > Len(framePosPats)
  /\ \E j1, j2 \in DOMAIN frameInfos : \E l \in 0..(sliceSize - 1) :
       /\ j1 < j2
       /\ frameInfos[j1].imagePosPat = frameInfos[j2].imagePosPat
       /\ pixelBuffer[(j1 - 1) * sliceSize + l + 1] # 0
       /\ pixelBuffer[(j2 - 1) * sliceSize + l + 1] # 0
       /\ ReferencedSegment(j1).displayValue
            # ReferencedSegment(j2).displayValue

\* ----------------------------------------------------------------- C4
\* the buffer is not there, or has channels * columns * rows * slices
\* elements; it is there once the merge loop is reached
BufferSized ==
  /\ buffer # <<>> =>
       Len(buffer) = Channels * dicomElements.x00280011
                       * dicomElements.x00280010 * Len(posPats)
  /\ pc \in {"mergeFrame", "geometry", "done"} => buffer # <<>>
  /\ pc \notin {"mergeFrame", "geometry", "done", "error"} => buffer = <<>>

\* the buffer appears in the allocation step only, all zero and with no
\* frame merged; once there, its length and the slice count stay
BufferSteps ==
  /\ (buffer = <<>> /\ buffer' # <<>>) =>
       /\ pc = "allocate"
       /\ f' = 0
       /\ \A k \in DOMAIN buffer' : buffer'[k] = 0
  /\ buffer # <<>> =>
       /\ Len(buffer') = Len(buffer)
       /\ posPats' = posPats
       /\ segments' = segments

\* C4: the output buffer is allocated exactly once with
\* channels * columns * rows * numberOfSlices elements, channels 3 if a
\* segment has an RGB display value and 1 otherwise, numberOfSlices the
\* length of the completed position list; it is zero-filled before any
\* frame is scattered and its length never changes afterwards.
C4_BufferAllocatedOnce == []BufferSized /\ [][BufferSteps]_vars

\* a three-channel volume with a synthetic slice is returned
C4_Witness ==
  /\ Returned
  /\ Channels = 3
  /\ Len(posPats) > Len(framePosPats)
  /\ \E k \in DOMAIN buffer : buffer[k] # 0

\* ----------------------------------------------------------------- C5
\* the frame positions, each once
UniqueFramePositions ==
  {frameInfos[j].imagePosPat : j \in DOMAIN frameInfos}

\* p sorts before q: larger z, then larger y, then larger x
SortsBefore(p, q) ==
  \/ p[3].n > q[3].n
  \/ p[3].n = q[3].n /\ p[2].n > q[2].n
  \/ p[3].n = q[3].n /\ p[2].n = q[2].n /\ p[1].n > q[1].n

\* where position p sits in the completed list
PlacesOf(p) == {k \in DOMAIN posPats : posPats[k] = p}
PlaceOf(p) == CHOOSE k \in PlacesOf(p) : TRUE

\* p and q are neighbours in the sorted unique frame positions
Neighbours(p, q) ==
  /\ SortsBefore(p, q)
  /\ ~\E r \in UniqueFramePositions : SortsBefore(p, r) /\ SortsBefore(r, q)

\* the z of each position of a list
Zs(positions) == [k \in DOMAIN positions |-> positions[k][3].n]

GrayTagReadFailed ==
  /\ Raised
  /\ error = TypeError("element.x006200C is undefined")

\* the call is the documented scalar decode: one segment of grayscale
\* display value 5, 2 x 2, one frame, pixels [1, 0, 0, 1]
ScalarDecodeCall ==
  /\ Has(dicomElements, "x00620002")
  /\ dicomElements.x00620002 = <<GraySegment(1, 5)>>
  /\ Has(dicomElements, "x00280011") /\ dicomElements.x00280011 = 2
  /\ Has(dicomElements, "x00280010") /\ dicomElements.x00280010 = 2
  /\ pixelBuffer = <<1, 0, 0, 1>>

\* C6: getSegment resolves the display value of a segment item that carries
\* the grayscale display value tag (0062,000C) to that tag's scalar value,
\* with or without the CIELab tag: the read does not throw and every stored
\* segment of such an item has that value; the documented scalar decode
\* ends with the single slice [5, 0, 0, 5].
C6_GrayDisplayValue ==
  /\ ~GrayTagReadFailed
  /\ \A k \in DOMAIN segments :
       Has(dicomElements.x00620002[k], "x0062000C") =>
         segments[k].displayValue = dicomElements.x00620002[k].x0062000C
  /\ (ScalarDecodeCall /\ (Returned \/ Raised)) =>
       (Returned /\ buffer = <<5, 0, 0, 5>>)

\* ----------------------------------------------------------------- C7
\* the declared frame count, 1 when (0028,0008) is not there
DeclaredFrames ==
  IF Has(dicomElements, "x00280008") THEN dicomElements.x00280008.n ELSE 1

\* rows and columns are there and not zero
SizeKnown ==
  /\ Has(dicomElements, "x00280011") /\ dicomElements.x00280011 > 0
  /\ Has(dicomElements, "x00280010") /\ dicomElements.x00280010 > 0

\* the declared count is not pixelBuffer.length / (rows * columns)
BufferMismatch ==
  /\ SizeKnown
  /\ DeclaredFrames * dicomElements.x00280010 * dicomElements.x00280011
       # Len(pixelBuffer)

\* the declared count is not the number of per-frame items
PerFrameMismatch ==
  /\ Has(dicomElements, "x52009230")
  /\ DeclaredFrames # Len(dicomElements.x52009230)

BufferCountError ==
  Error("Buffer and numberOfFrames meta are not equal.", "")
PerFrameCountError ==
  Error("perFrameFuncGroupSequence meta and numberOfFrames are not equal.", "")

\* the call is over
Ended == Returned \/ Raised

\* a returned volume has all four counts equal
CountsAgreeOnReturn ==
  Returned =>
    /\ DeclaredFrames = Len(dicomElements.x52009230)
    /\ DeclaredFrames = Len(frameInfos)
    /\ DeclaredFrames * dicomElements.x00280010 * dicomElements.x00280011
         = Len(pixelBuffer)

\* C7 as stated: create raises a frame-count error and returns no volume
\* whenever the declared frame count differs from pixelBuffer.length /
\* (rows * columns) or from the per-frame sequence length; a returned
\* volume has declared count = per-frame items = FrameInfo records =
\* pixelBuffer.length / (rows * columns).
C7_FrameCountErrorWhenever ==
  /\ (Ended /\ (BufferMismatch \/ PerFrameMismatch)) =>
       (Raised /\ error \in {BufferCountError, PerFrameCountError})
  /\ CountsAgreeOnReturn

\* a call with a mismatch ends without a volume
NoVolumeOnMismatch ==
  (Ended /\ (BufferMismatch \/ PerFrameMismatch)) => Raised

\* the step that compares the counts raises the frame-count error
CountSteps ==
  /\ (pc = "size" /\ BufferMismatch) =>
       (pc' = "error" /\ error' = BufferCountError)
  /\ (pc = "perFrameGroups" /\ PerFrameMismatch) =>
       (pc' = "error" /\ error' = PerFrameCountError)

\* C7 amended: create returns no volume whenever the declared frame count
\* differs from pixelBuffer.length / (rows * columns) or from the per-frame
\* sequence length; the error is the frame-count error when the step that
\* compares the counts is reached, and the error of an earlier step
\* otherwise; a returned volume has all four counts equal.
C7_FrameCountErrorWhenReached ==
  /\ [](NoVolumeOnMismatch /\ CountsAgreeOnReturn)
  /\ [][CountSteps]_vars

\* the per-frame comparison was reached with a mismatch and raised
C7_Witness ==
  /\ Raised
  /\ PerFrameMismatch
  /\ ~BufferMismatch
  /\ error = PerFrameCountError

\* ----------------------------------------------------------------- C8
\* the numbers an orientation sequence supplies, if it supplies any
OrientationOf(item) ==
  IF Has(item, "x00209116") /\ Len(item.x00209116) # 0
    THEN Some([k \in DOMAIN item.x00209116[1].x00200037 |->
                 item.x00209116[1].x00200037[k].n])
    ELSE None

\* the numbers a pixel measures sequence supplies, if it supplies any;
\* an item without pixel spacing supplies the empty tuple
SpacingOf(item) ==
  IF Has(item, "x00289110") /\ Len(item.x00289110) # 0
    THEN LET measure == item.x00289110[1]
         IN  Some(IF ~Has(measure, "x00280030") THEN <<>>
                  ELSE <<measure.x00280030[1].n, measure.x00280030[2].n>>
                         \o (IF Has(measure, "x00180088")
                               THEN <<measure.x00180088.n>> ELSE <<>>))
    ELSE None

\* the shared group and the per-frame items, as far as they are there
GeometrySources ==
  (IF Has(dicomElements, "x52009229") /\ Len(dicomElements.x52009229) # 0
     THEN {dicomElements.x52009229[1]} ELSE {})
  \cup (IF Has(dicomElements, "x52009230")
          THEN {dicomElements.x52009230[j] :
                  j \in DOMAIN dicomElements.x52009230}
          ELSE {})

OrientationsDiffer ==
  \E a, b \in GeometrySources :
    /\ OrientationOf(a).has /\ OrientationOf(b).has
    /\ OrientationOf(a).v # OrientationOf(b).v

SpacingsDiffer ==
  \E a, b \in GeometrySources :
    /\ SpacingOf(a).has /\ SpacingOf(b).has
    /\ SpacingOf(a).v # SpacingOf(b).v

MultiOrientationError == Error("Unsupported multi orientation dicom seg.", "")
MultiResolutionError == Error("Unsupported multi resolution dicom seg.", "")

\* C8: a multi-orientation (multi-resolution) error is raised only if two
\* sources among the shared group and the per-frame items supply
\* orientations (spacings) of different values; when the shared group and
\* every frame supply the same orientation and the same spacing the scan
\* raises no such error.
C8_MultiErrorOnlyWhenSourcesDiffer ==
  /\ (Raised /\ error = MultiOrientationError) => OrientationsDiffer
  /\ (Raised /\ error = MultiResolutionError) => SpacingsDiffer

\* ----------------------------------------------------------------- C9
\* no spacing resolved: nothing supplied one, or only the sentinel
SpacingUnresolved == spacing \in {Undefined, Null}
OrientationUnresolved == imageOrientationPatient = Undefined

MissingGeometryErrors ==
  {Error("No spacing found for DICOM SEG", ""),
   Error("No imageOrientationPatient found for DICOM SEG", "")}

\* C9: if, once the shared group and all frames are scanned, no spacing or
\* no orientation is resolved, create raises the missing-geometry error and
\* returns no volume; the spacing reader's sentinel for a pixel measures
\* item without pixel spacing counts as unresolved spacing.
C9_MissingGeometryRaised ==
  [][(pc = "sortPosPats" /\ (SpacingUnresolved \/ OrientationUnresolved))
       => (pc' = "error" /\ error' \in MissingGeometryErrors)]_vars

\* ---------------------------------------------------------------- C10
\* C10: create does not mutate its inputs: the element tree, every
\* per-frame item's Image Position Patient array included, and the input
\* pixelBuffer hold in every step the values they held before it.
C10_InputsUnchanged ==
  [][dicomElements' = dicomElements /\ pixelBuffer' = pixelBuffer]_vars

\* ------------------------------------------------- the pure functions
\* dwv.utils.isEqualRgb: the three components agree
isEqualRgb(c1, c2) == c1.r = c2.r /\ c1.g = c2.g /\ c1.b = c2.b

\* typeof seg === 'undefined' || seg === null
NoSegment(seg) == seg = Undefined \/ seg = Null

\* dwv.dicom.isEqualSegment
isEqualSegment(seg1, seg2) ==
  IF NoSegment(seg1) \/ NoSegment(seg2) THEN FALSE
  ELSE
    LET basics ==
          /\ seg1.number = seg2.number
          /\ seg1.label = seg2.label
          /\ seg1.algorithmType = seg2.algorithmType
        afterRgb ==
          IF IsRgb(seg1.displayValue)
            THEN IF ~IsRgb(seg2.displayValue) THEN FALSE
                 ELSE basics /\ isEqualRgb(seg1.displayValue, seg2.displayValue)
            ELSE basics /\ seg1.displayValue = seg2.displayValue
    IN  IF Has(seg1, "algorithmName")
          THEN IF ~Has(seg2, "algorithmName") THEN FALSE
               ELSE afterRgb /\ seg1.algorithmName = seg2.algorithmName
          ELSE afterRgb

\* dwv.dicom.isSimilarSegment
isSimilarSegment(seg1, seg2) ==
  IF NoSegment(seg1) \/ NoSegment(seg2) THEN FALSE
  ELSE
    LET isSimilar == seg1.number = seg2.number
    IN  IF IsRgb(seg1.displayValue)
          THEN IF ~IsRgb(seg2.displayValue) THEN FALSE
               ELSE isSimilar
                      \/ isEqualRgb(seg1.displayValue, seg2.displayValue)
          ELSE isSimilar \/ seg1.displayValue = seg2.displayValue

\* segment objects: two numbers, labels and algorithm types, an algorithm
\* name or none, a scalar or an RGB display value
SegmentObjects ==
  {Put([number |-> n, label |-> l, algorithmType |-> t, displayValue |-> v],
       "algorithmName", name) :
     n \in {1, 2}, l \in {"a", "b"}, t \in {"MANUAL", "AUTOMATIC"},
     v \in {Num(5), Num(7), [type |-> "rgb", r |-> 255, g |-> 0, b |-> 0],
            [type |-> "rgb", r |-> 0, g |-> 255, b |-> 0]},
     name \in {None, Some("x"), Some("y")}}

\* coordinate triples
Triples ==
  {<<Num(x), Num(y), Num(z)>> : x, y, z \in 0..MaxCoord}

\* the documented list to sort
SortExample ==
  <<<<Num(0), Num(0), Num(0)>>, <<Num(0), Num(0), Num(2)>>,
    <<Num(0), Num(0), Num(1)>>>>

Calling(op, args) ==
  /\ call = [op |-> op, args |-> args]
  /\ result = Undefined

FunctionInit ==
  /\ NoCreate
  /\ ZipLoaderNew
  /\ DataLoaderNew
  /\ \/ \E op \in {"isEqualSegment", "isSimilarSegment"} :
          \E a, b \in SegmentObjects \cup {Undefined, Null} :
            Calling(op, <<a, b>>)
     \/ \E a, b \in Triples : Calling("comparePosPat", <<a, b>>)
     \/ \E a, b, c \in Triples :
          /\ a # b /\ a # c /\ b # c
          /\ Calling("sort", <<<<a, b, c>>>>)
     \/ Calling("sort", <<SortExample>>)

\* the call is of op and has not returned
Called(op) == call.op = op /\ result = Undefined

IsEqualSegment ==
  /\ Called("isEqualSegment")
  /\ result' = Return(isEqualSegment(call.args[1], call.args[2]))
  /\ UNCHANGED <<call, decoder, zipLoader, dataLoader>>

IsSimilarSegment ==
  /\ Called("isSimilarSegment")
  /\ result' = Return(isSimilarSegment(call.args[1], call.args[2]))
  /\ UNCHANGED <<call, decoder, zipLoader, dataLoader>>

ComparePosPat ==
  /\ Called("comparePosPat")
  /\ result' = Return(comparePosPat(call.args[1], call.args[2]))
  /\ UNCHANGED <<call, decoder, zipLoader, dataLoader>>

\* arr.sort(dwv.dicom.comparePosPat)
Sort ==
  /\ Called("sort")
  /\ result' = Return(sortPosPats(call.args[1]))
  /\ UNCHANGED <<call, decoder, zipLoader, dataLoader>>

FunctionNext ==
  \/ IsEqualSegment
  \/ IsSimilarSegment
  \/ ComparePosPat
  \/ Sort

FunctionSpec == FunctionInit /\ [][FunctionNext]_vars

\* ---------------------------------------------------------------- C11
\* the ZipLoader loads that still have a callback to come
ActiveLoads == {p.load : p \in promises}

\* every stored file has the name of the entry its data came from
FilesNamedAfterData ==
  \A k \in DOMAIN files : files[k].filename = files[k].data

\* the stored files are those of one load
FilesOfOneLoad ==
  \A k, m \in DOMAIN files : files[k].data[1] = files[m].data[1]

\* C11: each loader instance has at most one active load: a load() issued
\* while isLoading() is true starts no second concurrent load, so the unzip
\* callbacks of two loads never interleave on #files, #zobjs and #filename,
\* and no loadend clears the loading flag while another load is running.
C11_OneActiveLoad ==
  /\ Cardinality(ActiveLoads) <= 1
  /\ FilesNamedAfterData
  /\ FilesOfOneLoad
  /\ Cardinality(conversions) <= 1
  /\ ActiveLoads # {} => isLoading \/ Aborts(loadends) > 0
  /\ conversions # {} => dataIsLoading

\* ---------------------------------------------------------------- C16
\* the onloadend events of load id
LoadendsOf(id) == {k \in DOMAIN loadends : loadends[k].load = id}

\* C16: every ZipLoader load() is followed by exactly one onloadend,
\* whether it completes, errors or is aborted, and isLoading() is true from
\* the call to that event and false after it: no load has two, a load
\* without one still has a callback to come that leads to it, and the flag
\* is set exactly while some load has none; with abort() during the
\* unzipping and with an archive without a .dcm entry.
C16_OneLoadendPerLoad ==
  /\ \A id \in DOMAIN loads :
       /\ Cardinality(LoadendsOf(id)) <= 1
       /\ LoadendsOf(id) = {} => id \in ActiveLoads
  /\ isLoading <=> \E id \in DOMAIN loads : LoadendsOf(id) = {}

\* ---------------------------------------------------------------- C12
\* the element has a value (an empty value counts as none)
Valued(element, key) == Has(element, key) /\ element[key] # ""

\* the four rules in their order, as the error each raises
CompressedSyntax ==
  getSyntaxDecompressionName(cleanString(dicomElements.x00020010)) # "null"
NoSegmentationType == ~Valued(dicomElements, "x00620001")
NotBinary == cleanString(dicomElements.x00620001) # "BINARY"
Not3D ==
  /\ Valued(dicomElements, "x00209311")
  /\ cleanString(dicomElements.x00209311) # "3D"

ValidatorVerdict ==
  IF CompressedSyntax
    THEN Error("Unsupported compressed segmentation",
               getSyntaxDecompressionName(cleanString(dicomElements.x00020010)))
  ELSE IF NoSegmentationType
    THEN Error("Missing or empty DICOM segmentation type", "")
  ELSE IF NotBinary
    THEN Error("Unsupported segmentation type",
               cleanString(dicomElements.x00620001))
  ELSE IF Not3D
    THEN Error("Unsupported dimension organization type",
               cleanString(dicomElements.x00209311))
  ELSE NoError

ValidatorMessages ==
  {"Unsupported compressed segmentation",
   "Missing or empty DICOM segmentation type",
   "Unsupported segmentation type",
   "Unsupported dimension organization type"}

Returned2(op) == call # Undefined /\ call.op = op /\ result # Undefined

\* display values match: as RGB when both are RGB-shaped, as scalars else
DisplayValuesMatch(a, b) ==
  IF IsRgb(a.displayValue) /\ IsRgb(b.displayValue)
    THEN /\ a.displayValue.r = b.displayValue.r
         /\ a.displayValue.g = b.displayValue.g
         /\ a.displayValue.b = b.displayValue.b
    ELSE a.displayValue = b.displayValue

\* the algorithm names match whenever either segment has one
AlgorithmNamesMatch(a, b) ==
  (Has(a, "algorithmName") \/ Has(b, "algorithmName")) =>
    /\ Has(a, "algorithmName") /\ Has(b, "algorithmName")
    /\ a.algorithmName = b.algorithmName

EqualSegments(a, b) ==
  /\ ~NoSegment(a) /\ ~NoSegment(b)
  /\ a.number = b.number
  /\ a.label = b.label
  /\ a.algorithmType = b.algorithmType
  /\ AlgorithmNamesMatch(a, b)
  /\ DisplayValuesMatch(a, b)

\* C13: isEqualSegment(seg1, seg2) is true exactly when number, label and
\* algorithm type match, the algorithm names match whenever either segment
\* has one, and the display values match; the relation is symmetric.
C13_IsEqualSegment ==
  Returned2("isEqualSegment") =>
    /\ result.value = EqualSegments(call.args[1], call.args[2])
    /\ result.value = isEqualSegment(call.args[2], call.args[1])

\* ---------------------------------------------------------------- C14
SimilarSegments(a, b) ==
  /\ ~NoSegment(a) /\ ~NoSegment(b)
  /\ a.number = b.number \/ DisplayValuesMatch(a, b)

\* C14: isSimilarSegment(seg1, seg2) is true exactly when the segments have
\* equal numbers or equal display values, also when one display value is
\* RGB-shaped and the other scalar; the relation is symmetric.
C14_IsSimilarSegment ==
  Returned2("isSimilarSegment") =>
    /\ result.value = SimilarSegments(call.args[1], call.args[2])
    /\ result.value = isSimilarSegment(call.args[2], call.args[1])

\* ---------------------------------------------------------------- C15
\* the first nonzero b[i] - a[i] from the last index to the first
FirstDifference(a, b) ==
  IF \A i \in DOMAIN a : b[i].n = a[i].n THEN 0
  ELSE LET i == CHOOSE k \in DOMAIN a :
                  /\ b[k].n # a[k].n
                  /\ \A m \in DOMAIN a : m > k => b[m].n = a[m].n
       IN  b[i].n - a[i].n

\* a comes before b: larger last axis, then larger preceding axes
Descending(a, b) ==
  \/ a[3].n > b[3].n
  \/ a[3].n = b[3].n /\ a[2].n > b[2].n
  \/ a[3].n = b[3].n /\ a[2].n = b[2].n /\ a[1].n > b[1].n

\* same elements, each as often
Permutation(s, t) ==
  /\ Len(s) = Len(t)
  /\ \A x \in {s[k] : k \in DOMAIN s} \cup {t[k] : k \in DOMAIN t} :
       Cardinality({k \in DOMAIN s : s[k] = x})
         = Cardinality({k \in DOMAIN t : t[k] = x})

\* C15: comparePosPat(a, b) returns the first nonzero b[i] - a[i] scanning i
\* from the last index to the first, and 0 exactly when equalPosPat(a, b);
\* sorting distinct coordinate triples with it gives them descending by the
\* last axis, ties broken by the preceding axes, also descending:
\* [[0,0,0],[0,0,2],[0,0,1]] becomes [[0,0,2],[0,0,1],[0,0,0]].
C15_ComparePosPat ==
  /\ Returned2("comparePosPat") =>
       /\ result.value = FirstDifference(call.args[1], call.args[2])
       /\ result.value = 0 <=> equalPosPat(call.args[1], call.args[2])
  /\ Returned2("sort") =>
       /\ Permutation(result.value, call.args[1])
       /\ \A k \in 1..(Len(result.value) - 1) :
            Descending(result.value[k], result.value[k + 1])
       /\ call.args[1] = SortExample =>
            result.value = <<SortExample[2], SortExample[3], SortExample[1]>>

\* the documented list has been sorted
C15_Witness ==
  /\ Returned2("sort")
  /\ call.args[1] = SortExample
  /\ result.value[1] = <<Num(0), Num(0), Num(2)>>


\* ---------------------------------------------------------------------
\* C17  the scatter loop stays inside the output buffer
\* ---------------------------------------------------------------------

\* the merge loop is reached: the buffer is allocated, frames remain
Scattering == pc = "mergeFrame"

\* findIndexPosPat(posPats, frameInfos[j].imagePosPat), 0-based
SliceIndexOf(j) == findIndexPosPat(posPats, frameInfos[j].imagePosPat) - 1

SliceIndexFound(j) ==
  /\ SliceIndexOf(j) \in 0..(Len(posPats) - 1)
  /\ posPats[SliceIndexOf(j) + 1] = frameInfos[j].imagePosPat

SegmentResolves(j) == findSegment(frameInfos[j].refSegmentNumber) # 0

OffsetsInBuffer(j) ==
  \A l \in 0..(sliceSize - 1) : \A c \in 0..(Mul - 1) :
    Mul * (sliceSize * SliceIndexOf(j) + l) + c \in 0..(Len(buffer) - 1)

\* the two parts of the statement that are about positions
SlicesAndOffsetsInRange ==
  Scattering =>
    \A j \in DOMAIN frameInfos : SliceIndexFound(j) /\ OffsetsInBuffer(j)

\* C17: in the merge loop every frame's position is found in posPats at
\* an index in [0, numberOfSlices - 1] whose entry equals the position,
\* the frame's refSegmentNumber is the number of a segment of the
\* segment list, and every offset mul * (sliceSize * sliceIndex + l) + c
\* with l < sliceSize and c < mul is an index of the buffer.
C17_ScatterInBounds ==
  Scattering =>
    \A j \in DOMAIN frameInfos :
      SliceIndexFound(j) /\ SegmentResolves(j) /\ OffsetsInBuffer(j)

====
